---- MODULE Spec2Model ----
(***************************************************************************)
(* Reservation lifecycle, availability and payment ledger of api-mihotel.  *)
(* The persisted collections are the state; every HTTP handler is one      *)
(* action.  A handler is written as an operator from the database to its   *)
(* outcome (HTTP status code and new database), so that a claim about a    *)
(* request can be stated over every reachable database.                    *)
(*                                                                         *)
(* Time is counted in ticks (TicksPerDay ticks make a day); money in the   *)
(* smallest unit the payment schema accepts (its minimum amount, 0.01).    *)
(***************************************************************************)
EXTENDS Integers, Sequences, FiniteSets, TLC

VARIABLES reservations, rooms, guests, payments, guardTenant, inflight, quote

vars == <<reservations, rooms, guests, payments, guardTenant, inflight, quote>>

-----------------------------------------------------------------------------
(* config/constants.js                                                     *)

HTTP_OK == 200
HTTP_CREATED == 201
HTTP_BAD_REQUEST == 400
HTTP_NOT_FOUND == 404
HTTP_CONFLICT == 409
HTTP_INTERNAL_SERVER_ERROR == 500

RESERVATION_STATUS == {"pending", "confirmed", "checked_in", "checked_out", "cancelled"}
PAYMENT_STATUS == {"pending", "partial", "paid"}
ROOM_STATUS == {"available", "occupied", "maintenance", "cleaning"}

-----------------------------------------------------------------------------
(* Bounds of the model                                                     *)

MaxRes == 2
MaxStayRes == 1
MaxPayRes == 1
MaxDeskRes == 1
MaxInflight == 2
MaxAmount == 2
MaxPay == 2
MaxDay == 3
MaxFee == 1
MaxStays == 2
MaxRate == 2
MaxCapacity == 2
MaxNights == 3
MaxParty == 3

(* Ticks in a day (the model's clock resolution) and the day the requests  *)
(* are served on.                                                          *)
TicksPerDay == 2
Today == 1

-----------------------------------------------------------------------------
(* The tenants and their properties, rooms and guests.  Tenant, property   *)
(* and capacity of a room are fixed; its status and base price change.     *)

Tenants == {"t1", "t2"}
NoTenant == "none"
Properties == {"p1", "p2"}
Rooms == {"r1", "r2", "r3"}
Guests == {"g1", "g2"}

propertyTenant(p) == IF p = "p1" THEN "t1" ELSE "t2"
roomProperty(r) == IF r = "r3" THEN "p2" ELSE "p1"
roomTenant(r) == propertyTenant(roomProperty(r))
guestTenant(g) == IF g = "g1" THEN "t1" ELSE "t2"

capacityAdults(r) == IF r = "r2" THEN 2 ELSE 1
capacityChildren(r) == IF r = "r2" THEN 0 ELSE 1
extraAdultPrice(r) == 1
extraChildPrice(r) == 1

DB == [reservations |-> reservations, rooms |-> rooms, guests |-> guests,
       payments |-> payments]

ResIds(db) == 1..Len(db.reservations)
PayIds(db) == 1..Len(db.payments)

-----------------------------------------------------------------------------
(* Tenant filter of a query.  A query that names a tenant uses it; one     *)
(* that names none gets the tenant the tenantGuard patch injects: the      *)
(* tenant of the most recent guarded request (NoTenant before the first    *)
(* guarded request, when no filter is injected).                           *)

TenantMatches(docTenant, ambient) == ambient = NoTenant \/ docTenant = ambient

-----------------------------------------------------------------------------
(* Dates                                                                   *)

normalizeDate(d) == d - (d % TicksPerDay)

TodayMidnight == Today * TicksPerDay

(* reservation.model.js virtual 'nights': ceil((checkOut - checkIn)/day)   *)
nightsOf(ci, co) == ((co - ci) + (TicksPerDay - 1)) \div TicksPerDay

validateReservationDates(ci, co) ==
    IF co <= ci THEN FALSE
    ELSE IF ci < TodayMidnight THEN FALSE
    ELSE TRUE

validateGuestCapacity(adults, children, r) ==
    LET totalGuests == adults + children
        roomCapacity == capacityAdults(r) + capacityChildren(r)
    IN  IF totalGuests < 1 THEN FALSE
        ELSE IF totalGuests > roomCapacity THEN FALSE
        ELSE TRUE

BlockingStatus == {"pending", "confirmed", "checked_in"}

(* hasOverlap with closed ranges: the check-out day counts as occupied.     *)
hasOverlapClosed(newCheckIn, newCheckOut, existing) ==
    /\ newCheckIn <= normalizeDate(existing.checkOutDate)
    /\ newCheckOut >= normalizeDate(existing.checkInDate)

hasOverlap(newCheckIn, newCheckOut, existing) ==
    /\ newCheckIn < normalizeDate(existing.checkOutDate)
    /\ newCheckOut > normalizeDate(existing.checkInDate)

(* checkRoomAvailability that ignores excludeReservationId.                *)
checkRoomAvailabilityAll(db, roomId, ci, co, tenantId, exclude) ==
    { i \in ResIds(db) :
        /\ db.reservations[i].roomId = roomId
        /\ db.reservations[i].tenantId = tenantId
        /\ db.reservations[i].isActive
        /\ db.reservations[i].status \in BlockingStatus
        /\ hasOverlap(normalizeDate(ci), normalizeDate(co), db.reservations[i]) }

(* checkRoomAvailability that compares the dates as stored and given,      *)
(* without normalizing them to midnight.                                   *)
checkRoomAvailabilityRaw(db, roomId, ci, co, tenantId, exclude) ==
    { i \in ResIds(db) :
        /\ db.reservations[i].roomId = roomId
        /\ db.reservations[i].tenantId = tenantId
        /\ db.reservations[i].isActive
        /\ db.reservations[i].status \in BlockingStatus
        /\ i # exclude
        /\ ci < db.reservations[i].checkOutDate
        /\ co > db.reservations[i].checkInDate }

(* The ids of the conflicting reservations; the room is available iff the  *)
(* set is empty.  exclude = 0 excludes none.                               *)
checkRoomAvailability(db, roomId, ci, co, tenantId, exclude) ==
    LET newCheckIn == normalizeDate(ci)
        newCheckOut == normalizeDate(co)
    IN  { i \in ResIds(db) :
            /\ db.reservations[i].roomId = roomId
            /\ db.reservations[i].tenantId = tenantId
            /\ db.reservations[i].isActive
            /\ db.reservations[i].status \in BlockingStatus
            /\ i # exclude
            /\ hasOverlap(newCheckIn, newCheckOut, db.reservations[i]) }

-----------------------------------------------------------------------------
(* Pricing and the save pipeline of a reservation document                 *)

(* The capacity and the rate schedule of a room document.                  *)
RoomDoc(db, r) ==
    [basePrice |-> db.rooms[r].basePrice,
     capacityAdults |-> capacityAdults(r),
     capacityChildren |-> capacityChildren(r),
     extraAdultPrice |-> extraAdultPrice(r),
     extraChildPrice |-> extraChildPrice(r)]

(* room.calculatePrice that charges each extra guest once, not per night.  *)
calculatePriceFlatExtras(room, nights, adults, children) ==
    room.basePrice * nights
    + (IF adults > room.capacityAdults
       THEN (adults - room.capacityAdults) * room.extraAdultPrice ELSE 0)
    + (IF children > room.capacityChildren
       THEN (children - room.capacityChildren) * room.extraChildPrice ELSE 0)

(* room.calculatePrice(nights, adults, children)                           *)
calculatePrice(room, nights, adults, children) ==
    LET base == room.basePrice * nights
        extraA == IF adults > room.capacityAdults
                  THEN (adults - room.capacityAdults) * room.extraAdultPrice * nights
                  ELSE 0
        extraC == IF children > room.capacityChildren
                  THEN (children - room.capacityChildren) * room.extraChildPrice * nights
                  ELSE 0
    IN  base + extraA + extraC

updatePaymentSummary(doc) ==
    LET remaining == doc.totalPrice - doc.totalPaid
    IN  [doc EXCEPT !.remainingBalance = remaining,
                    !.paymentStatus =
                        IF doc.totalPaid <= 0 THEN "pending"
                        ELSE IF remaining <= 0 THEN "paid"
                        ELSE "partial"]

(* A query sees a room that is not soft-deleted and, when the query names  *)
(* no tenant, belongs to the ambient one.  Room.findById inside            *)
(* calculatePricing names no tenant.                                       *)
RoomVisible(db, r, ambient) ==
    ~db.rooms[r].deleted /\ TenantMatches(roomTenant(r), ambient)

PricingRoomFound(db, doc, ambient) == RoomVisible(db, doc.roomId, ambient)

calculatePricing(db, doc) ==
    LET n == nightsOf(doc.checkInDate, doc.checkOutDate)
        roomCost == calculatePrice(RoomDoc(db, doc.roomId), n, doc.adults, doc.children)
        total == roomCost + doc.feesCleaning + doc.feesService + doc.feesExtra
    IN  [doc EXCEPT !.nights = n,
                    !.roomRate = db.rooms[doc.roomId].basePrice,
                    !.taxes = 0,
                    !.subtotal = roomCost,
                    !.totalPrice = total,
                    !.remainingBalance = total - doc.totalPaid]

(* Schema validators, run by save() before the pre('save') hooks.          *)
ValidReservation(doc) ==
    /\ doc.adults >= 1 /\ doc.adults <= 20
    /\ doc.children >= 0 /\ doc.children <= 10
    /\ doc.roomRate >= 0 /\ doc.nights >= 1 /\ doc.subtotal >= 0
    /\ doc.taxes >= 0 /\ doc.totalPrice >= 0
    /\ doc.feesCleaning >= 0 /\ doc.feesService >= 0 /\ doc.feesExtra >= 0
    /\ doc.totalPaid >= 0 /\ doc.remainingBalance >= 0
    /\ doc.status \in RESERVATION_STATUS
    /\ doc.paymentStatus \in PAYMENT_STATUS

(* pre('save') date hook.                                                  *)
DatesHookOk(doc, checkInModified) ==
    /\ ~(doc.checkInDate >= doc.checkOutDate)
    /\ checkInModified => ~(normalizeDate(doc.checkInDate) < TodayMidnight)

(* save(): validation, then the pre('save') hooks.  datesOrGuests says     *)
(* whether isModified('dates') or isModified('guests') holds, which is so  *)
(* when any path below them was set.                                       *)
SaveOk(db, doc, datesOrGuests, checkInModified, ambient) ==
    /\ ValidReservation(doc)
    /\ datesOrGuests => PricingRoomFound(db, doc, ambient)
    /\ DatesHookOk(doc, checkInModified)

Saved(db, doc, datesOrGuests) ==
    updatePaymentSummary(IF datesOrGuests THEN calculatePricing(db, doc) ELSE doc)

PutReservation(db, id, doc) ==
    [db EXCEPT !.reservations[id] = doc]

SetRoomStatus(db, r, s, ambient) ==
    IF RoomVisible(db, r, ambient)
    THEN [db EXCEPT !.rooms[r].status = s]
    ELSE db

(* updateStayStats that counts the stay and forgets the amount.            *)
updateStayStatsNoSpend(db, g, amount) ==
    [db EXCEPT !.guests[g].totalStays = @ + 1]

updateStayStats(db, g, amount) ==
    [db EXCEPT !.guests[g].totalStays = @ + 1,
               !.guests[g].totalSpent = @ + amount]

Outcome(code, db) == [code |-> code, db |-> db]

-----------------------------------------------------------------------------
(* Reservation controller                                                  *)

Absent == -1
NoStatus == "none"

FindReservation(db, t, id) ==
    id \in ResIds(db) /\ db.reservations[id].tenantId = t

(* createReservationFailedStep that counts the guests before it looks the  *)
(* guest up.                                                               *)
createReservationFailedStepCapacityFirst(db, t, body) ==
    IF ~validateReservationDates(body.checkInDate, body.checkOutDate)
        THEN "dates"
    ELSE IF ~(body.propertyId \in Properties /\ propertyTenant(body.propertyId) = t)
        THEN "property"
    ELSE IF ~(/\ roomProperty(body.roomId) = body.propertyId
              /\ roomTenant(body.roomId) = t
              /\ ~db.rooms[body.roomId].deleted)
        THEN "room"
    ELSE IF ~validateGuestCapacity(IF body.adults = 0 THEN 1 ELSE body.adults,
                                   body.children, body.roomId)
        THEN "capacity"
    ELSE IF ~(guestTenant(body.guestId) = t /\ ~db.guests[body.guestId].deleted)
        THEN "guest"
    ELSE IF checkRoomAvailability(db, body.roomId, body.checkInDate,
                                  body.checkOutDate, t, 0) # {}
        THEN "availability"
    ELSE "none"

(* createReservation, steps 1-6: the first step that fails, "none" when    *)
(* all of them pass.                                                       *)
createReservationFailedStep(db, t, body) ==
    IF ~validateReservationDates(body.checkInDate, body.checkOutDate)
        THEN "dates"
    ELSE IF ~(body.propertyId \in Properties /\ propertyTenant(body.propertyId) = t)
        THEN "property"
    ELSE IF ~(/\ roomProperty(body.roomId) = body.propertyId
              /\ roomTenant(body.roomId) = t
              /\ ~db.rooms[body.roomId].deleted)
        THEN "room"
    ELSE IF ~(guestTenant(body.guestId) = t /\ ~db.guests[body.guestId].deleted)
        THEN "guest"
    ELSE IF ~validateGuestCapacity(IF body.adults = 0 THEN 1 ELSE body.adults,
                                   body.children, body.roomId)
        THEN "capacity"
    ELSE IF checkRoomAvailability(db, body.roomId, body.checkInDate,
                                  body.checkOutDate, t, 0) # {}
        THEN "availability"
    ELSE "none"

(* The status each step answers with when it fails.                        *)
StepStatus(step) ==
    CASE step = "dates" -> HTTP_BAD_REQUEST
      [] step = "property" -> HTTP_NOT_FOUND
      [] step = "room" -> HTTP_NOT_FOUND
      [] step = "guest" -> HTTP_NOT_FOUND
      [] step = "capacity" -> HTTP_BAD_REQUEST
      [] step = "availability" -> HTTP_CONFLICT
      [] OTHER -> HTTP_OK

(* createReservation, steps 1-6: the status of the first failing step, or  *)
(* HTTP_OK when all of them pass.                                          *)
createReservationChecks(db, t, body) ==
    StepStatus(createReservationFailedStep(db, t, body))

(* NewReservation that takes the status the request names.                 *)
NewReservationRequestedStatus(t, body) ==
    LET isDirectCheckIn == body.status = "checked_in"
    IN  [tenantId |-> t,
         propertyId |-> body.propertyId,
         roomId |-> body.roomId,
         guestId |-> body.guestId,
         checkInDate |-> body.checkInDate,
         checkOutDate |-> body.checkOutDate,
         actualCheckInDate |-> isDirectCheckIn,
         actualCheckOutDate |-> FALSE,
         adults |-> IF body.adults = 0 THEN 1 ELSE body.adults,
         children |-> body.children,
         status |-> IF body.status = NoStatus THEN "pending" ELSE body.status,
         roomRate |-> body.roomRate,
         nights |-> body.nights,
         subtotal |-> body.subtotal,
         taxes |-> body.taxes,
         feesCleaning |-> body.feesCleaning,
         feesService |-> body.feesService,
         feesExtra |-> body.feesExtra,
         totalPrice |-> body.totalPrice,
         paymentStatus |-> "pending",
         totalPaid |-> 0,
         remainingBalance |-> 0,
         confirmedAt |-> isDirectCheckIn,
         checkedInAt |-> isDirectCheckIn,
         checkedOutAt |-> FALSE,
         cancelledAt |-> FALSE,
         isActive |-> TRUE]

NewReservation(t, body) ==
    LET isDirectCheckIn == body.status = "checked_in"
    IN  [tenantId |-> t,
         propertyId |-> body.propertyId,
         roomId |-> body.roomId,
         guestId |-> body.guestId,
         checkInDate |-> body.checkInDate,
         checkOutDate |-> body.checkOutDate,
         actualCheckInDate |-> isDirectCheckIn,
         actualCheckOutDate |-> FALSE,
         adults |-> IF body.adults = 0 THEN 1 ELSE body.adults,
         children |-> body.children,
         status |-> IF isDirectCheckIn THEN "checked_in" ELSE "pending",
         roomRate |-> body.roomRate,
         nights |-> body.nights,
         subtotal |-> body.subtotal,
         taxes |-> body.taxes,
         feesCleaning |-> body.feesCleaning,
         feesService |-> body.feesService,
         feesExtra |-> body.feesExtra,
         totalPrice |-> body.totalPrice,
         paymentStatus |-> "pending",
         totalPaid |-> 0,
         remainingBalance |-> 0,
         confirmedAt |-> isDirectCheckIn,
         checkedInAt |-> isDirectCheckIn,
         checkedOutAt |-> FALSE,
         cancelledAt |-> FALSE,
         isActive |-> TRUE]

(* createReservationSave that checks the room again when it writes.       *)
createReservationSaveRechecked(db, t, body, ambient) ==
    IF checkRoomAvailability(db, body.roomId, body.checkInDate,
                             body.checkOutDate, t, 0) # {}
    THEN Outcome(HTTP_CONFLICT, db)
    ELSE Outcome(HTTP_CREATED,
                 [db EXCEPT !.reservations =
                      Append(@, Saved(db, NewReservation(t, body), TRUE))])

(* createReservation, steps 7-10: build the document, save it, and on a    *)
(* direct check-in update the room and the guest.                          *)
createReservationSave(db, t, body, ambient) ==
    LET doc == NewReservation(t, body)
    IN  IF ~SaveOk(db, doc, TRUE, TRUE, ambient)
        THEN Outcome(HTTP_INTERNAL_SERVER_ERROR, db)
        ELSE LET saved == Saved(db, doc, TRUE)
                 db1 == [db EXCEPT !.reservations = Append(@, saved)]
                 db2 == IF body.status = "checked_in"
                        THEN updateStayStats(
                                 SetRoomStatus(db1, saved.roomId, "occupied", ambient),
                                 saved.guestId, saved.totalPrice)
                        ELSE db1
             IN  Outcome(HTTP_CREATED, db2)

createReservation(db, t, body) ==
    LET c == createReservationChecks(db, t, body)
    IN  IF c # HTTP_OK THEN Outcome(c, db)
        ELSE createReservationSave(db, t, body, t)

(* confirmReservation without its test of the current status.             *)
confirmReservationAnyStatus(db, t, id) ==
    IF ~FindReservation(db, t, id) THEN Outcome(HTTP_NOT_FOUND, db)
    ELSE Outcome(HTTP_OK,
                 PutReservation(db, id, [db.reservations[id] EXCEPT !.status = "confirmed"]))

confirmReservation(db, t, id) ==
    IF ~FindReservation(db, t, id) THEN Outcome(HTTP_NOT_FOUND, db)
    ELSE IF db.reservations[id].status # "pending" THEN Outcome(HTTP_BAD_REQUEST, db)
    ELSE LET doc == [db.reservations[id] EXCEPT !.status = "confirmed"]
         IN  IF ~SaveOk(db, doc, FALSE, FALSE, t)
             THEN Outcome(HTTP_INTERNAL_SERVER_ERROR, db)
             ELSE Outcome(HTTP_OK, PutReservation(db, id, Saved(db, doc, FALSE)))

(* reservation.checkIn(): throws unless confirmed, else sets the status    *)
(* and the check-in timestamps and saves.                                  *)
checkIn(doc) ==
    [doc EXCEPT !.status = "checked_in",
                !.actualCheckInDate = TRUE,
                !.checkedInAt = TRUE]

GuestFound(db, g, ambient) ==
    ~db.guests[g].deleted /\ TenantMatches(guestTenant(g), ambient)

(* checkInGuest.  roomFails and guestFails say whether the room update    *)
(* and the guest lookup or save throw (the database refuses or times       *)
(* out); either lands in the handler's catch.                              *)
checkInGuestRequest(db, t, id, roomFails, guestFails) ==
    IF ~FindReservation(db, t, id) THEN Outcome(HTTP_NOT_FOUND, db)
    ELSE IF db.reservations[id].status # "confirmed" THEN Outcome(HTTP_BAD_REQUEST, db)
    ELSE LET doc == checkIn(db.reservations[id])
         IN  IF ~SaveOk(db, doc, TRUE, FALSE, t)
             THEN Outcome(HTTP_INTERNAL_SERVER_ERROR, db)
             ELSE LET saved == Saved(db, doc, TRUE)
                      db1 == PutReservation(db, id, saved)
                      db2 == SetRoomStatus(db1, saved.roomId, "occupied", t)
                      db3 == IF GuestFound(db2, saved.guestId, t)
                             THEN updateStayStats(db2, saved.guestId, saved.totalPrice)
                             ELSE db2
                  IN  IF roomFails THEN Outcome(HTTP_INTERNAL_SERVER_ERROR, db1)
                      ELSE IF guestFails THEN Outcome(HTTP_INTERNAL_SERVER_ERROR, db2)
                      ELSE Outcome(HTTP_OK, db3)

checkInGuest(db, t, id) == checkInGuestRequest(db, t, id, FALSE, FALSE)

checkOut(doc) ==
    [doc EXCEPT !.status = "checked_out",
                !.actualCheckOutDate = TRUE,
                !.checkedOutAt = TRUE]

(* charges: the sum of additionalCharges[].amount, 0 when none are sent;   *)
(* roomFails says whether the room update throws.                          *)
checkOutGuestRequest(db, t, id, charges, roomFails) ==
    IF ~FindReservation(db, t, id) THEN Outcome(HTTP_NOT_FOUND, db)
    ELSE IF db.reservations[id].status # "checked_in" THEN Outcome(HTTP_BAD_REQUEST, db)
    ELSE LET r0 == db.reservations[id]
             charged == IF charges > 0
                        THEN updatePaymentSummary(
                                 [r0 EXCEPT !.feesExtra = @ + charges,
                                            !.totalPrice = @ + charges])
                        ELSE r0
             doc == checkOut(charged)
         IN  IF ~SaveOk(db, doc, TRUE, FALSE, t)
             THEN Outcome(HTTP_INTERNAL_SERVER_ERROR, db)
             ELSE LET saved == Saved(db, doc, TRUE)
                      db1 == PutReservation(db, id, saved)
                  IN  IF roomFails THEN Outcome(HTTP_INTERNAL_SERVER_ERROR, db1)
                      ELSE Outcome(HTTP_OK,
                                   SetRoomStatus(db1, saved.roomId, "cleaning", t))

checkOutGuest(db, t, id, charges) == checkOutGuestRequest(db, t, id, charges, FALSE)

(* reservation.cancel(): throws from checked_out and cancelled.            *)
cancel(doc) ==
    [doc EXCEPT !.status = "cancelled", !.cancelledAt = TRUE]

(* The status the controller tests after cancel() to decide whether the    *)
(* room is freed: it reads the document cancel() has just saved.           *)
StatusTestedForRoomRelease(before, after) == after.status

cancelReservation(db, t, id) ==
    IF ~FindReservation(db, t, id) THEN Outcome(HTTP_NOT_FOUND, db)
    ELSE IF db.reservations[id].status \in {"checked_out", "cancelled"}
        THEN Outcome(HTTP_INTERNAL_SERVER_ERROR, db)
    ELSE LET doc == cancel(db.reservations[id])
         IN  IF ~SaveOk(db, doc, FALSE, FALSE, t)
             THEN Outcome(HTTP_INTERNAL_SERVER_ERROR, db)
             ELSE LET saved == Saved(db, doc, FALSE)
                      db1 == PutReservation(db, id, saved)
                      tested == StatusTestedForRoomRelease(db.reservations[id], saved)
                  IN  IF tested \in {"confirmed", "checked_in"}
                      THEN Outcome(HTTP_OK, SetRoomStatus(db1, saved.roomId, "available", t))
                      ELSE Outcome(HTTP_OK, db1)

deleteReservation(db, t, id) ==
    IF ~FindReservation(db, t, id) THEN Outcome(HTTP_NOT_FOUND, db)
    ELSE LET doc == [db.reservations[id] EXCEPT !.isActive = FALSE]
         IN  IF ~SaveOk(db, doc, FALSE, FALSE, t)
             THEN Outcome(HTTP_INTERNAL_SERVER_ERROR, db)
             ELSE Outcome(HTTP_OK, PutReservation(db, id, Saved(db, doc, FALSE)))

(* updateReservation.  The validated body keeps only dates, guests, status  *)
(* and the free-text fields (updateReservationSchema); body.hasDates and   *)
(* body.hasGuests say whether the objects are present, Absent and NoStatus *)
(* mark the fields left out.                                               *)
updateReservation(db, t, id, body) ==
    IF ~FindReservation(db, t, id) THEN Outcome(HTTP_NOT_FOUND, db)
    ELSE
    LET r0 == db.reservations[id]
        checkInDate == IF body.hasDates /\ body.checkInDate # Absent
                       THEN body.checkInDate ELSE r0.checkInDate
        checkOutDate == IF body.hasDates /\ body.checkOutDate # Absent
                        THEN body.checkOutDate ELSE r0.checkOutDate
        roomId == r0.roomId
        \* updateData.guests?.adults || reservation.guests.adults || 1
        adults == IF body.hasGuests /\ body.adults # Absent /\ body.adults # 0
                  THEN body.adults
                  ELSE IF r0.adults # 0 THEN r0.adults ELSE 1
        \* updateData.guests?.children || reservation.guests.children || 0
        children == IF body.hasGuests /\ body.children # Absent /\ body.children # 0
                    THEN body.children
                    ELSE r0.children
    IN  IF checkOutDate <= checkInDate THEN Outcome(HTTP_BAD_REQUEST, db)
        ELSE IF ~(roomTenant(roomId) = t /\ ~db.rooms[roomId].deleted)
            THEN Outcome(HTTP_NOT_FOUND, db)
        ELSE IF ~validateGuestCapacity(adults, children, roomId)
            THEN Outcome(HTTP_BAD_REQUEST, db)
        ELSE IF body.hasDates
                /\ checkRoomAvailability(db, roomId, checkInDate, checkOutDate, t, id) # {}
            THEN Outcome(HTTP_CONFLICT, db)
        ELSE
        LET d1 == IF body.status # NoStatus THEN [r0 EXCEPT !.status = body.status] ELSE r0
            d2 == IF body.hasDates
                  THEN [d1 EXCEPT !.checkInDate = checkInDate,
                                  !.checkOutDate = checkOutDate]
                  ELSE d1
            doc == IF body.hasGuests
                   THEN [d2 EXCEPT !.adults = adults, !.children = children]
                   ELSE d2
            modified == body.hasDates \/ body.hasGuests
        IN  IF ~SaveOk(db, doc, modified, body.hasDates, t)
            THEN Outcome(HTTP_INTERNAL_SERVER_ERROR, db)
            ELSE Outcome(HTTP_OK, PutReservation(db, id, Saved(db, doc, modified)))

-----------------------------------------------------------------------------
(* Room and guest controllers: updateRoom sets the fields of the body on a *)
(* room of the caller's tenant, here its base price; deleteRoom and        *)
(* deleteGuest soft-delete.                                                *)

updateRoom(db, t, r, basePrice) ==
    IF basePrice < 0 THEN Outcome(HTTP_BAD_REQUEST, db)
    ELSE IF ~(roomTenant(r) = t /\ ~db.rooms[r].deleted) THEN Outcome(HTTP_NOT_FOUND, db)
    ELSE Outcome(HTTP_OK, [db EXCEPT !.rooms[r].basePrice = basePrice])

(* The reservations that keep a room or a guest from being deleted.        *)
activeReservations(db, t, field, v) ==
    { i \in ResIds(db) :
        /\ db.reservations[i][field] = v
        /\ db.reservations[i].tenantId = t
        /\ db.reservations[i].status \in {"confirmed", "checked_in"}
        /\ db.reservations[i].isActive }

deleteRoom(db, t, r) ==
    IF activeReservations(db, t, "roomId", r) # {} THEN Outcome(HTTP_CONFLICT, db)
    ELSE IF ~(roomTenant(r) = t /\ ~db.rooms[r].deleted) THEN Outcome(HTTP_NOT_FOUND, db)
    ELSE Outcome(HTTP_OK, [db EXCEPT !.rooms[r].deleted = TRUE])

deleteGuest(db, t, g) ==
    IF activeReservations(db, t, "guestId", g) # {} THEN Outcome(HTTP_CONFLICT, db)
    ELSE IF ~(guestTenant(g) = t /\ ~db.guests[g].deleted) THEN Outcome(HTTP_NOT_FOUND, db)
    ELSE Outcome(HTTP_OK, [db EXCEPT !.guests[g].deleted = TRUE])

-----------------------------------------------------------------------------
(* Availability listings                                                   *)

(* Room.findAvailableInProperty: the aggregation keeps the rooms of the    *)
(* property in status available that the $lookup pairs with no             *)
(* reservation.  The $lookup reads '$checkInDate' and '$checkOutDate',     *)
(* fields a reservation does not have (its dates are under 'dates'): a     *)
(* missing field compares below every date.                                *)
MissingField == 0 - 1

lookupConflicts(db, r, checkInDate, checkOutDate) ==
    { i \in ResIds(db) :
        LET resCheckInDate == MissingField
            resCheckOutDate == MissingField
        IN  /\ db.reservations[i].roomId = r
            /\ db.reservations[i].tenantId = roomTenant(r)
            /\ db.reservations[i].isActive
            /\ db.reservations[i].status \in {"confirmed", "checked_in"}
            /\ \/ resCheckInDate <= checkInDate /\ resCheckOutDate > checkInDate
               \/ resCheckInDate < checkOutDate /\ resCheckOutDate >= checkOutDate
               \/ resCheckInDate >= checkInDate /\ resCheckOutDate <= checkOutDate }

findAvailableInProperty(db, tenantId, propertyId, checkInDate, checkOutDate) ==
    { r \in Rooms :
        /\ roomTenant(r) = tenantId
        /\ roomProperty(r) = propertyId
        /\ db.rooms[r].status = "available"
        /\ ~db.rooms[r].deleted
        /\ lookupConflicts(db, r, checkInDate, checkOutDate) = {} }

(* getAvailableRooms: the rooms of the property without a reservation in   *)
(* one of the statuses it names whose stored dates overlap the range.      *)
getAvailableRooms(db, propertyId, checkInDate, checkOutDate, tenantId) ==
    LET allRooms == { r \in Rooms :
                        /\ roomProperty(r) = propertyId
                        /\ roomTenant(r) = tenantId
                        /\ ~db.rooms[r].deleted }
        occupiedRoomIds ==
            { db.reservations[i].roomId : i \in
                { j \in ResIds(db) :
                    /\ db.reservations[j].propertyId = propertyId
                    /\ db.reservations[j].tenantId = tenantId
                    /\ db.reservations[j].isActive
                    /\ db.reservations[j].status
                           \in {"pending", "confirmed", "checked-in"}
                    /\ db.reservations[j].checkInDate < checkOutDate
                    /\ db.reservations[j].checkOutDate > checkInDate } }
    IN  allRooms \ occupiedRoomIds

(* checkAvailability: [code, rooms].  castThrows says whether this build's *)
(* mongoose refuses ObjectId called without new, which                     *)
(* findAvailableInProperty does.  The aggregation returns plain objects,   *)
(* which carry no totalCapacity virtual: undefined >= totalGuests is       *)
(* false for every room, so the capacity filter keeps none.                *)
checkAvailability(db, t, propertyId, checkInDate, checkOutDate, castThrows) ==
    IF castThrows THEN [code |-> HTTP_INTERNAL_SERVER_ERROR, rooms |-> {}]
    ELSE LET availableRooms ==
                 findAvailableInProperty(db, t, propertyId, checkInDate, checkOutDate)
             totalCapacityDefined == FALSE
             suitableRooms == { r \in availableRooms : totalCapacityDefined }
         IN  [code |-> HTTP_OK, rooms |-> suitableRooms]

-----------------------------------------------------------------------------
(* Payment model and controller.  The payment routes install no tenant     *)
(* guard: the reconciler's queries, which name no tenant, get the tenant   *)
(* the latest guarded request left in place (ambient).                     *)

MinAmount == 1

RECURSIVE SumPaidUpTo(_, _, _, _)
SumPaidUpTo(db, resId, ambient, n) ==
    IF n = 0 THEN 0
    ELSE LET p == db.payments[n]
             counted == /\ p.reservationId = resId
                        /\ p.status = "paid"
                        /\ p.isActive
                        /\ TenantMatches(p.tenantId, ambient)
         IN  SumPaidUpTo(db, resId, ambient, n - 1)
             + (IF counted THEN p.amount - p.refundedAmount ELSE 0)

(* payment.updateReservationPaymentStatus(): [ok, db]; ok is FALSE when    *)
(* the reservation's save throws.                                          *)
updateReservationPaymentStatus(db, payId, ambient) ==
    LET resId == db.payments[payId].reservationId
        found == /\ resId \in ResIds(db)
                 /\ TenantMatches(db.reservations[resId].tenantId, ambient)
    IN  IF ~found THEN [ok |-> TRUE, db |-> db]
        ELSE LET totalPaid == SumPaidUpTo(db, resId, ambient, Len(db.payments))
                 doc == updatePaymentSummary(
                            [db.reservations[resId] EXCEPT !.totalPaid = totalPaid])
             IN  IF ~SaveOk(db, doc, FALSE, FALSE, ambient)
                 THEN [ok |-> FALSE, db |-> db]
                 ELSE [ok |-> TRUE, db |-> PutReservation(db, resId, Saved(db, doc, FALSE))]

(* post('save'): reconcile only when the saved payment is paid.            *)
postSave(db, payId, ambient) ==
    IF db.payments[payId].status = "paid"
    THEN updateReservationPaymentStatus(db, payId, ambient)
    ELSE [ok |-> TRUE, db |-> db]

NewPayment(t, resId, amount) ==
    [tenantId |-> t, reservationId |-> resId, amount |-> amount,
     status |-> "paid", refundedAmount |-> 0, isRefunded |-> FALSE,
     isActive |-> TRUE]

(* createPaymentChecks without the test against the remaining balance.    *)
createPaymentChecksNoBalance(db, t, resId, amount) ==
    IF ~(FindReservation(db, t, resId) /\ db.reservations[resId].isActive)
        THEN HTTP_NOT_FOUND
    ELSE HTTP_OK

(* createPayment, steps 1-2.                                               *)
createPaymentChecks(db, t, resId, amount) ==
    IF ~(FindReservation(db, t, resId) /\ db.reservations[resId].isActive)
        THEN HTTP_NOT_FOUND
    ELSE IF amount > db.reservations[resId].remainingBalance
        THEN HTTP_BAD_REQUEST
    ELSE HTTP_OK

(* createPayment, steps 3-5: payment.save() with its validators and its    *)
(* post('save') hook.                                                      *)
createPaymentSave(db, t, resId, amount, ambient) ==
    IF amount < MinAmount THEN Outcome(HTTP_BAD_REQUEST, db)
    ELSE LET db1 == [db EXCEPT !.payments = Append(@, NewPayment(t, resId, amount))]
             rec == postSave(db1, Len(db1.payments), ambient)
         IN  IF rec.ok THEN Outcome(HTTP_CREATED, rec.db)
             ELSE Outcome(HTTP_BAD_REQUEST, db1)

createPayment(db, t, resId, amount, ambient) ==
    LET c == createPaymentChecks(db, t, resId, amount)
    IN  IF c # HTTP_OK THEN Outcome(c, db)
        ELSE createPaymentSave(db, t, resId, amount, ambient)

FindPayment(db, t, payId) ==
    payId \in PayIds(db) /\ db.payments[payId].tenantId = t

updatePayment(db, t, payId, status, ambient) ==
    IF ~FindPayment(db, t, payId) THEN Outcome(HTTP_NOT_FOUND, db)
    ELSE LET db1 == IF status # NoStatus
                    THEN [db EXCEPT !.payments[payId].status = status]
                    ELSE db
             rec == postSave(db1, payId, ambient)
         IN  IF rec.ok THEN Outcome(HTTP_OK, rec.db)
             ELSE Outcome(HTTP_BAD_REQUEST, db1)

(* The power of ten above n: 10 for one decimal digit, 100 for two.        *)
RECURSIVE DecimalShift(_)
DecimalShift(n) == IF n < 10 THEN 10 ELSE 10 * DecimalShift(n \div 10)

(* refundedAmount += amount.  The refund route validates no body, so the   *)
(* amount is the JSON number or the JSON string the client sent: the sum   *)
(* with a number adds; the sum with a string writes the digits of the      *)
(* amount after those of the current value, and the schema casts the       *)
(* result back to a number.                                                *)
addAssign(current, amount, asText) ==
    IF asText THEN current * DecimalShift(amount) + amount
    ELSE current + amount

(* payment.processRefund(), after its two tests.                           *)
refundDocument(p, amount, asText) ==
    LET refunded == addAssign(p.refundedAmount, amount, asText)
    IN  [p EXCEPT !.isRefunded = TRUE,
                  !.refundedAmount = refunded,
                  !.status = IF refunded >= p.amount THEN "pending" ELSE p.status]

(* processRefund that tests neither the amount still refundable nor the    *)
(* payment's status.                                                       *)
processRefundUntested(db, t, payId, amount, asText, ambient) ==
    IF ~FindPayment(db, t, payId) THEN Outcome(HTTP_NOT_FOUND, db)
    ELSE IF amount <= 0 THEN Outcome(HTTP_BAD_REQUEST, db)
    ELSE Outcome(HTTP_OK,
                 [db EXCEPT !.payments[payId] = refundDocument(@, amount, asText)])

(* processRefund; asText says the body's amount is a JSON string.  The     *)
(* comparisons read a string as the number it spells.                      *)
processRefundRequest(db, t, payId, amount, asText, ambient) ==
    IF ~FindPayment(db, t, payId) THEN Outcome(HTTP_NOT_FOUND, db)
    ELSE IF amount <= 0 THEN Outcome(HTTP_BAD_REQUEST, db)
    ELSE IF amount > db.payments[payId].amount - db.payments[payId].refundedAmount
        THEN Outcome(HTTP_BAD_REQUEST, db)
    ELSE IF db.payments[payId].status # "paid" THEN Outcome(HTTP_BAD_REQUEST, db)
    ELSE LET db1 == [db EXCEPT !.payments[payId] = refundDocument(@, amount, asText)]
             rec == postSave(db1, payId, ambient)
         IN  IF rec.ok THEN Outcome(HTTP_OK, rec.db)
             ELSE Outcome(HTTP_BAD_REQUEST, db1)

(* processRefund of a body whose amount is a JSON number.                  *)
processRefund(db, t, payId, amount, ambient) ==
    processRefundRequest(db, t, payId, amount, FALSE, ambient)

deletePayment(db, t, payId, ambient) ==
    IF ~FindPayment(db, t, payId) THEN Outcome(HTTP_NOT_FOUND, db)
    ELSE IF db.payments[payId].status = "paid" THEN Outcome(HTTP_CONFLICT, db)
    ELSE LET db1 == [db EXCEPT !.payments[payId].isActive = FALSE]
             rec == postSave(db1, payId, ambient)
         IN  Outcome(HTTP_OK, rec.db)

-----------------------------------------------------------------------------
(* Requests                                                                *)

guestOf(t) == IF t = "t1" THEN "g1" ELSE "g2"

DateInputs == {d * TicksPerDay : d \in 0..MaxDay}
NoonInputs == {MaxDay * TicksPerDay - 1}
ChargeInputs == 0..MaxFee
PricedRooms == {"r1"}
PriceInputs == {1, 2}
IdInputs == 1..MaxRes

CreateBody(p, r, g, ci, co, a, c, st, fee) ==
    [propertyId |-> p, roomId |-> r, guestId |-> g,
     checkInDate |-> ci, checkOutDate |-> co,
     adults |-> a, children |-> c, status |-> st,
     roomRate |-> 1, nights |-> 1, subtotal |-> 0, taxes |-> 0,
     feesCleaning |-> 0, feesService |-> 0, feesExtra |-> fee,
     totalPrice |-> 0]

UpdateBody(hasDates, ci, co, hasGuests, a, c, st) ==
    [hasDates |-> hasDates, checkInDate |-> ci, checkOutDate |-> co,
     hasGuests |-> hasGuests, adults |-> a, children |-> c, status |-> st]

DatesBody(ci, co) == UpdateBody(TRUE, ci, co, FALSE, Absent, Absent, NoStatus)
StatusBody(st) == UpdateBody(FALSE, Absent, Absent, FALSE, Absent, Absent, st)

(* The response is sent and the database is left as the handler made it;   *)
(* guard is the tenant the tenantGuard patch injects from now on.          *)
Respond(o, guard) ==
    /\ reservations' = o.db.reservations
    /\ rooms' = o.db.rooms
    /\ guests' = o.db.guests
    /\ payments' = o.db.payments
    /\ guardTenant' = guard
    /\ UNCHANGED <<inflight, quote>>

(* The guards on MaxRes, MaxStays and MaxFee keep the collection and the   *)
(* counters of the model finite.                                           *)
StaysBelowBound == \A g \in Guests : guests[g].totalStays < MaxStays

Create(bodies, max) ==
    \E t \in Tenants, body \in bodies :
        /\ Len(reservations) < max
        /\ StaysBelowBound
        /\ Respond(createReservation(DB, t, body), t)

Update(bodies) ==
    \E t \in Tenants, id \in IdInputs, body \in bodies :
        Respond(updateReservation(DB, t, id, body), t)

DeleteReservation ==
    \E t \in Tenants, id \in IdInputs :
        Respond(deleteReservation(DB, t, id), t)

ConfirmReservation ==
    \E t \in Tenants, id \in IdInputs :
        Respond(confirmReservation(DB, t, id), t)

CheckInGuest ==
    \E t \in Tenants, id \in IdInputs :
        /\ StaysBelowBound
        /\ Respond(checkInGuest(DB, t, id), t)

CheckOutGuest ==
    \E t \in Tenants, id \in IdInputs, charges \in ChargeInputs :
        /\ id \in ResIds(DB) => reservations[id].feesExtra + charges <= MaxFee
        /\ Respond(checkOutGuest(DB, t, id, charges), t)

CancelReservation ==
    \E t \in Tenants, id \in IdInputs :
        Respond(cancelReservation(DB, t, id), t)

UpdateRoom ==
    \E t \in Tenants, r \in PricedRooms, price \in PriceInputs :
        Respond(updateRoom(DB, t, r, price), t)

DeleteRoom ==
    \E t \in Tenants, r \in PricedRooms :
        Respond(deleteRoom(DB, t, r), t)

DeleteGuest ==
    \E t \in Tenants, g \in Guests :
        Respond(deleteGuest(DB, t, g), t)

(* quote is a call of room.calculatePrice: its room, its arguments and,    *)
(* once it has returned, its result.  No call is open while requests are   *)
(* served one at a time.                                                   *)
NoQuote == [called |-> FALSE]

CheckAvailability ==
    \E t \in Tenants, p \in Properties, ci \in DateInputs, co \in DateInputs,
       castThrows \in BOOLEAN :
        /\ co > ci
        /\ Respond(Outcome(checkAvailability(DB, t, p, ci, co, castThrows).code, DB), t)

Init ==
    /\ reservations = << >>
    /\ rooms = [r \in Rooms |->
                   [status |-> "available", basePrice |-> 1, deleted |-> FALSE]]
    /\ guests = [g \in Guests |->
                   [totalStays |-> 0, totalSpent |-> 0, deleted |-> FALSE]]
    /\ payments = << >>
    /\ guardTenant = NoTenant
    /\ inflight = << >>
    /\ quote = NoQuote

-----------------------------------------------------------------------------
(* Spec: booking requests executed one at a time.                          *)

CreateBodies ==
    { CreateBody(roomProperty(r), r, g, ci, co, 1, 0, NoStatus, 0) :
        r \in Rooms, g \in Guests, ci \in DateInputs, co \in DateInputs }

UpdateBodies ==
    { DatesBody(ci, co) : ci \in DateInputs, co \in DateInputs \cup NoonInputs }
    \cup { StatusBody("pending") }

CreateReservation == Create(CreateBodies, MaxRes)

UpdateReservation == Update(UpdateBodies)

Next ==
    \/ CreateReservation
    \/ UpdateReservation
    \/ DeleteReservation
    \/ ConfirmReservation
    \/ CancelReservation

Spec == Init /\ [][Next]_vars

-----------------------------------------------------------------------------
(* SpecStay: the whole life of one reservation, with the room's price      *)
(* changing under it.                                                      *)

StayBodies ==
    { CreateBody(roomProperty(r), r, guestOf(roomTenant(r)), TodayMidnight, co,
                 1, 0, st, 0) :
        r \in Rooms, co \in DateInputs \cup NoonInputs,
        st \in {NoStatus, "checked_in"} }

StayUpdateBodies ==
    { StatusBody(st) : st \in RESERVATION_STATUS }

CreateStay == Create(StayBodies, MaxStayRes)

UpdateStay == Update(StayUpdateBodies)

NextStay ==
    \/ CreateStay
    \/ UpdateStay
    \/ DeleteReservation
    \/ ConfirmReservation
    \/ CheckInGuest
    \/ CheckOutGuest
    \/ CancelReservation
    \/ UpdateRoom
    \/ DeleteRoom
    \/ DeleteGuest

SpecStay == Init /\ [][NextStay]_vars

-----------------------------------------------------------------------------
(* SpecConc: create requests whose availability check and save are two     *)
(* steps, other requests running in between.                               *)

ConcBodies ==
    { CreateBody(roomProperty(r), r, guestOf(roomTenant(r)), ci, co, 1, 0, NoStatus, 0) :
        r \in Rooms, ci \in DateInputs, co \in DateInputs }

(* Steps 1-6 of createReservation: a request that passes them is in flight *)
(* until it saves; one that fails them is answered at once.                *)
BeginCreate ==
    \E t \in Tenants, body \in ConcBodies :
        /\ Len(inflight) < MaxInflight
        /\ inflight' = IF createReservationChecks(DB, t, body) = HTTP_OK
                       THEN Append(inflight, [tenantId |-> t, body |-> body])
                       ELSE inflight
        /\ guardTenant' = t
        /\ UNCHANGED <<reservations, rooms, guests, payments, quote>>

(* Steps 7-10 of an in-flight request.                                     *)
FinishCreate ==
    \E i \in 1..Len(inflight) :
        LET o == createReservationSave(DB, inflight[i].tenantId, inflight[i].body,
                                       guardTenant)
        IN  /\ Len(reservations) < MaxRes
            /\ reservations' = o.db.reservations
            /\ rooms' = o.db.rooms
            /\ guests' = o.db.guests
            /\ inflight' = SubSeq(inflight, 1, i - 1)
                               \o SubSeq(inflight, i + 1, Len(inflight))
            /\ UNCHANGED <<payments, guardTenant, quote>>

NextConc ==
    \/ BeginCreate
    \/ FinishCreate

SpecConc == Init /\ [][NextConc]_vars

-----------------------------------------------------------------------------
(* SpecPay: the payments of one reservation.  The payment routes run no    *)
(* tenant guard, so they leave guardTenant as the latest guarded request   *)
(* set it.                                                                 *)

AmountInputs == 0..MaxAmount
PayIdInputs == 1..MaxPay

PayBodies ==
    { CreateBody("p1", "r1", "g1", TodayMidnight, co, 1, 0, NoStatus, 0) :
        co \in DateInputs }

PayUpdateBodies ==
    { DatesBody(Absent, co) : co \in DateInputs }

CreateForPay == Create(PayBodies, MaxPayRes)

UpdateForPay == Update(PayUpdateBodies)

CreatePayment ==
    \E t \in Tenants, resId \in 1..MaxPayRes, amount \in AmountInputs :
        /\ Len(payments) < MaxPay
        /\ Respond(createPayment(DB, t, resId, amount, guardTenant), guardTenant)

UpdatePayment ==
    \E t \in Tenants, payId \in PayIdInputs, st \in PAYMENT_STATUS :
        Respond(updatePayment(DB, t, payId, st, guardTenant), guardTenant)

ProcessRefund ==
    \E t \in Tenants, payId \in PayIdInputs, amount \in AmountInputs,
       asText \in BOOLEAN :
        Respond(processRefundRequest(DB, t, payId, amount, asText, guardTenant),
                guardTenant)

DeletePayment ==
    \E t \in Tenants, payId \in PayIdInputs :
        Respond(deletePayment(DB, t, payId, guardTenant), guardTenant)

NextPay ==
    \/ CreateForPay
    \/ UpdateForPay
    \/ DeleteReservation
    \/ CreatePayment
    \/ UpdatePayment
    \/ ProcessRefund
    \/ DeletePayment

SpecPay == Init /\ [][NextPay]_vars

-----------------------------------------------------------------------------
(* Payments recorded while an update of the reservation is in flight.      *)
(* updateReservation loads the document, awaits its lookups and the        *)
(* availability check, and then saves; save() of a loaded document sends   *)
(* the paths whose values it changed, and the stored document keeps the    *)
(* others as whoever wrote them last left them.                            *)

(* updateReservation up to its save: the request is answered at once when  *)
(* a check refuses it, and is in flight with the document it loaded        *)
(* otherwise.                                                              *)
BeginUpdate ==
    \E t \in Tenants, id \in 1..MaxPayRes, body \in PayUpdateBodies :
        /\ Len(inflight) < MaxInflight
        /\ inflight' = IF updateReservation(DB, t, id, body).code = HTTP_OK
                       THEN Append(inflight, [tenantId |-> t, id |-> id, body |-> body,
                                              loaded |-> reservations[id]])
                       ELSE inflight
        /\ guardTenant' = t
        /\ UNCHANGED <<reservations, rooms, guests, payments, quote>>

(* The fields save() writes: those of doc that differ from the loaded      *)
(* document, over the document as stored now.                              *)
saveModifiedPaths(stored, loaded, doc) ==
    [x \in DOMAIN stored |-> IF doc[x] # loaded[x] THEN doc[x] ELSE stored[x]]

(* The assignments and the save of an in-flight update, made on the        *)
(* document it loaded; calculatePricing looks the room up under the        *)
(* tenant filter in force at that moment.                                  *)
FinishUpdate ==
    \E k \in 1..Len(inflight) :
        LET f == inflight[k]
            view == PutReservation(DB, f.id, f.loaded)
            o == updateReservation(view, f.tenantId, f.id, f.body)
            roomFound == (f.body.hasDates \/ f.body.hasGuests)
                             => RoomVisible(DB, f.loaded.roomId, guardTenant)
            saved == o.code = HTTP_OK /\ roomFound
        IN  /\ reservations' =
                   IF saved
                   THEN [reservations EXCEPT ![f.id] =
                            saveModifiedPaths(@, f.loaded, o.db.reservations[f.id])]
                   ELSE reservations
            /\ inflight' = SubSeq(inflight, 1, k - 1)
                               \o SubSeq(inflight, k + 1, Len(inflight))
            /\ UNCHANGED <<rooms, guests, payments, guardTenant, quote>>

NextRace ==
    \/ CreateForPay
    \/ CreatePayment
    \/ BeginUpdate
    \/ FinishUpdate

SpecRace == Init /\ [][NextRace]_vars

-----------------------------------------------------------------------------
(* Stays served while the database may refuse a write: the room update or  *)
(* the guest update of a check-in or check-out throws.                     *)

CheckInGuestOrThrow ==
    \E t \in Tenants, id \in IdInputs, roomFails \in BOOLEAN, guestFails \in BOOLEAN :
        /\ StaysBelowBound
        /\ Respond(checkInGuestRequest(DB, t, id, roomFails, guestFails), t)

CheckOutGuestOrThrow ==
    \E t \in Tenants, id \in IdInputs, charges \in ChargeInputs, roomFails \in BOOLEAN :
        /\ id \in ResIds(DB) => reservations[id].feesExtra + charges <= MaxFee
        /\ Respond(checkOutGuestRequest(DB, t, id, charges, roomFails), t)

NextFault ==
    \/ CreateStay
    \/ ConfirmReservation
    \/ CheckInGuestOrThrow
    \/ CheckOutGuestOrThrow
    \/ CancelReservation

SpecFault == Init /\ [][NextFault]_vars

-----------------------------------------------------------------------------
(* Check-ins in flight.  checkInGuest loads the reservation and tests its  *)
(* status, then awaits checkIn(), the room update and the guest update.    *)

(* checkInGuest up to reservation.checkIn(): answered at once when the     *)
(* reservation is not found or not confirmed, in flight with the document  *)
(* it loaded otherwise.                                                    *)
BeginCheckIn ==
    \E t \in Tenants, id \in 1..MaxStayRes :
        /\ Len(inflight) < MaxInflight
        /\ inflight' = IF /\ FindReservation(DB, t, id)
                          /\ reservations[id].status = "confirmed"
                       THEN Append(inflight, [tenantId |-> t, id |-> id,
                                              loaded |-> reservations[id]])
                       ELSE inflight
        /\ guardTenant' = t
        /\ UNCHANGED <<reservations, rooms, guests, payments, quote>>

(* checkIn() on the loaded document, its save, and the room and guest      *)
(* updates; calculatePricing looks the room up under the tenant filter in  *)
(* force at that moment.                                                   *)
FinishCheckIn ==
    \E k \in 1..Len(inflight) :
        LET f == inflight[k]
            view == PutReservation(DB, f.id, f.loaded)
            o == checkInGuest(view, f.tenantId, f.id)
            saved == /\ o.code = HTTP_OK
                     /\ RoomVisible(DB, f.loaded.roomId, guardTenant)
        IN  /\ StaysBelowBound
            /\ reservations' =
                   IF saved
                   THEN [reservations EXCEPT ![f.id] =
                            saveModifiedPaths(@, f.loaded, o.db.reservations[f.id])]
                   ELSE reservations
            /\ rooms' = IF saved THEN o.db.rooms ELSE rooms
            /\ guests' = IF saved THEN o.db.guests ELSE guests
            /\ inflight' = SubSeq(inflight, 1, k - 1)
                               \o SubSeq(inflight, k + 1, Len(inflight))
            /\ UNCHANGED <<payments, guardTenant, quote>>

NextCheckIn ==
    \/ CreateStay
    \/ ConfirmReservation
    \/ BeginCheckIn
    \/ FinishCheckIn

SpecCheckIn == Init /\ [][NextCheckIn]_vars

-----------------------------------------------------------------------------
(* A check-out recorded while an update of the stay is in flight.          *)
NextCharge ==
    \/ CreateStay
    \/ CheckOutGuest
    \/ BeginUpdate
    \/ FinishUpdate

SpecCharge == Init /\ [][NextCharge]_vars

-----------------------------------------------------------------------------
(* SpecDesk: one booking at the front desk, made in advance or with a      *)
(* direct check-in, while rooms and guests are being deleted.              *)

DeskBodies ==
    { CreateBody(roomProperty(r), r, guestOf(roomTenant(r)), ci, co, 1, 0, st, 0) :
        r \in Rooms, ci \in {d \in DateInputs : d >= TodayMidnight},
        co \in DateInputs \cup NoonInputs, st \in {NoStatus, "checked_in"} }

CreateAtDesk == Create(DeskBodies, MaxDeskRes)

NextDesk ==
    \/ CreateAtDesk
    \/ CheckAvailability
    \/ CancelReservation
    \/ DeleteReservation
    \/ DeleteRoom
    \/ DeleteGuest

SpecDesk == Init /\ [][NextDesk]_vars

(* Parties: bookings for one or two adults with or without a child, and   *)
(* updates of the guest counts.                                            *)
PartyBodies ==
    { CreateBody(roomProperty(r), r, guestOf(roomTenant(r)), TodayMidnight, co,
                 a, c, NoStatus, 0) :
        r \in Rooms, co \in {d \in DateInputs : d > TodayMidnight},
        a \in 1..MaxCapacity, c \in 0..1 }

GuestsBody(a, c) == UpdateBody(FALSE, Absent, Absent, TRUE, a, c, NoStatus)

PartyUpdateBodies ==
    { GuestsBody(a, c) : a \in {Absent} \cup 1..MaxCapacity, c \in {Absent, 0, 1} }

CreateParty == Create(PartyBodies, MaxRes)

UpdateParty == Update(PartyUpdateBodies)

NextParty ==
    \/ CreateParty
    \/ UpdateParty

SpecParty == Init /\ [][NextParty]_vars

(* Turnover of a room: guests checked in at the desk, for tonight or for   *)
(* a later night, and checked out.                                         *)
CreateTurnover == Create(DeskBodies, MaxRes)

NextTurnover ==
    \/ CreateTurnover
    \/ CheckOutGuest

SpecTurnover == Init /\ [][NextTurnover]_vars

-----------------------------------------------------------------------------
(* SpecPrice: one call of room.calculatePrice, on any rate schedule and    *)
(* with any arguments within the bounds.                                   *)

RateSchedules ==
    [basePrice : 0..MaxRate,
     capacityAdults : 1..MaxCapacity,
     capacityChildren : 0..MaxCapacity,
     extraAdultPrice : 0..MaxRate,
     extraChildPrice : 0..MaxRate]

Call(room, nights, adults, children) ==
    [called |-> TRUE, returned |-> FALSE, room |-> room, nights |-> nights,
     adults |-> adults, children |-> children, totalPrice |-> 0]

(* A room of base price 100 that sleeps two adults and charges 20 for an   *)
(* extra one, booked for three nights by three adults.                     *)
ExampleCall ==
    Call([basePrice |-> 100, capacityAdults |-> 2, capacityChildren |-> 0,
          extraAdultPrice |-> 20, extraChildPrice |-> 0], 3, 3, 0)

Calls ==
    { Call(room, nights, adults, children) :
        room \in RateSchedules, nights \in 1..MaxNights,
        adults \in 1..MaxParty, children \in 0..MaxParty }
    \cup { ExampleCall }

InitPrice ==
    /\ reservations = << >>
    /\ rooms = [r \in Rooms |->
                   [status |-> "available", basePrice |-> 1, deleted |-> FALSE]]
    /\ guests = [g \in Guests |->
                   [totalStays |-> 0, totalSpent |-> 0, deleted |-> FALSE]]
    /\ payments = << >>
    /\ guardTenant = NoTenant
    /\ inflight = << >>
    /\ quote \in Calls

CalculatePrice ==
    /\ quote.called /\ ~quote.returned
    /\ quote' = [quote EXCEPT
                    !.returned = TRUE,
                    !.totalPrice = calculatePrice(quote.room, quote.nights,
                                                  quote.adults, quote.children)]
    /\ UNCHANGED <<reservations, rooms, guests, payments, guardTenant, inflight>>

NextPrice == CalculatePrice

SpecPrice == InitPrice /\ [][NextPrice]_vars

-----------------------------------------------------------------------------
(* Properties of the booking requests                                      *)

DayOf(d) == d \div TicksPerDay

(* The day ranges [checkInDate, checkOutDate) of a and b share a day.      *)
DayRangesOverlap(a, b) ==
    /\ DayOf(a.checkInDate) < DayOf(b.checkOutDate)
    /\ DayOf(b.checkInDate) < DayOf(a.checkOutDate)

Blocks(db, i, t, r) ==
    /\ db.reservations[i].tenantId = t
    /\ db.reservations[i].roomId = r
    /\ db.reservations[i].isActive
    /\ db.reservations[i].status \in {"pending", "confirmed", "checked_in"}

(* C1: in every state reached by booking requests executed one at a time,  *)
(* no two distinct active reservations of one tenant and one room, both    *)
(* pending, confirmed or checked_in, have overlapping day ranges.          *)
C1_NoOverlappingBookings ==
    \A i, j \in ResIds(DB) :
        (/\ i < j
         /\ Blocks(DB, i, reservations[i].tenantId, reservations[i].roomId)
         /\ Blocks(DB, j, reservations[i].tenantId, reservations[i].roomId))
        => ~DayRangesOverlap(reservations[i], reservations[j])

(* A create request that meets every precondition other than availability. *)
C3Bodies ==
    { CreateBody(roomProperty(r), r, guestOf(roomTenant(r)), ci, co, 1, 0, NoStatus, 0) :
        r \in Rooms,
        ci \in {d \in DateInputs \cup NoonInputs : d >= TodayMidnight},
        co \in DateInputs \cup NoonInputs }

C3Request(body) == DayOf(body.checkInDate) < DayOf(body.checkOutDate)

C3Overlapped(body) ==
    { i \in ResIds(DB) :
        /\ Blocks(DB, i, roomTenant(body.roomId), body.roomId)
        /\ DayRangesOverlap(body, reservations[i]) }

C3Persisted(o, body) ==
    /\ Len(o.db.reservations) = Len(reservations) + 1
    /\ SubSeq(o.db.reservations, 1, Len(reservations)) = reservations
    /\ o.db.reservations[Len(o.db.reservations)].roomId = body.roomId
    /\ o.db.reservations[Len(o.db.reservations)].checkInDate = body.checkInDate
    /\ o.db.reservations[Len(o.db.reservations)].checkOutDate = body.checkOutDate
    /\ o.db.reservations[Len(o.db.reservations)].isActive

(* C3: with a blocking reservation A on room R, a create request for a     *)
(* range B on R that overlaps no blocking reservation succeeds and         *)
(* persists a second reservation; one whose range overlaps A is rejected   *)
(* with a room-conflict error and persists nothing.                        *)
C3_CreateAfterExisting ==
    \A body \in C3Bodies :
        LET t == roomTenant(body.roomId)
            o == createReservation(DB, t, body)
        IN  (/\ C3Request(body)
             /\ \E i \in ResIds(DB) : Blocks(DB, i, t, body.roomId))
            => IF C3Overlapped(body) = {}
               THEN o.code = HTTP_CREATED /\ C3Persisted(o, body)
               ELSE o.code = HTTP_CONFLICT /\ o.db = DB

(* Two blocking reservations share a room without overlapping, and a       *)
(* request overlapping one of them is turned away.                         *)
C3_Witness ==
    /\ Len(reservations) = 2
    /\ Blocks(DB, 1, reservations[1].tenantId, reservations[1].roomId)
    /\ Blocks(DB, 2, reservations[1].tenantId, reservations[1].roomId)
    /\ ~DayRangesOverlap(reservations[1], reservations[2])
    /\ \E body \in C3Bodies :
           /\ C3Request(body)
           /\ body.roomId = reservations[1].roomId
           /\ C3Overlapped(body) # {}
           /\ createReservation(DB, reservations[1].tenantId, body).code = HTTP_CONFLICT

-----------------------------------------------------------------------------
(* Properties of the life of a reservation                                 *)

LegalEdges ==
    { <<"pending", "confirmed">>, <<"confirmed", "checked_in">>,
      <<"checked_in", "checked_out">>, <<"pending", "cancelled">>,
      <<"confirmed", "cancelled">>, <<"checked_in", "cancelled">> }

(* C4: every change of a reservation's status made by a request is one of  *)
(* the edges pending->confirmed, confirmed->checked_in,                    *)
(* checked_in->checked_out or {pending, confirmed, checked_in}->cancelled, *)
(* so a checked_out or cancelled reservation never changes status again.   *)
C4_LegalStatusChanges ==
    [][\A i \in ResIds(DB) :
          reservations'[i].status # reservations[i].status
          => <<reservations[i].status, reservations'[i].status>> \in LegalEdges]_vars

Succeeded(o) == o.code \in {HTTP_OK, HTTP_CREATED}

Timestamps(doc) ==
    <<doc.actualCheckInDate, doc.actualCheckOutDate, doc.confirmedAt,
      doc.checkedInAt, doc.checkedOutAt, doc.cancelledAt>>

(* What C5 says a failed transition leaves alone.                          *)
C5Untouched(o, id) ==
    /\ o.db.reservations[id].status = reservations[id].status
    /\ Timestamps(o.db.reservations[id]) = Timestamps(reservations[id])
    /\ o.db.rooms[reservations[id].roomId].status = rooms[reservations[id].roomId].status
    /\ o.db.guests[reservations[id].guestId].totalStays
           = guests[reservations[id].guestId].totalStays
    /\ o.db.guests[reservations[id].guestId].totalSpent
           = guests[reservations[id].guestId].totalSpent

C5Rejected(o, id) == ~Succeeded(o) /\ C5Untouched(o, id)

(* C5: confirm on a reservation that is not pending, check-in on one that  *)
(* is not confirmed, check-out on one that is not checked_in, and cancel   *)
(* on one that is checked_out or cancelled fail and leave the              *)
(* reservation's status and timestamps, the room's status and the guest's  *)
(* statistics unchanged.                                                   *)
C5_IllegalSourceRejected ==
    \A t \in Tenants, id \in ResIds(DB) :
        /\ reservations[id].status # "pending"
               => C5Rejected(confirmReservation(DB, t, id), id)
        /\ reservations[id].status # "confirmed"
               => C5Rejected(checkInGuest(DB, t, id), id)
        /\ reservations[id].status # "checked_in"
               => \A c \in ChargeInputs : C5Rejected(checkOutGuest(DB, t, id, c), id)
        /\ reservations[id].status \in {"checked_out", "cancelled"}
               => C5Rejected(cancelReservation(DB, t, id), id)

(* A guest has checked out: every one of the four requests is illegal on   *)
(* the reservation now.                                                    *)
C5_Witness ==
    \E id \in ResIds(DB) :
        /\ reservations[id].status = "checked_out"
        /\ reservations[id].checkedOutAt
        /\ rooms[reservations[id].roomId].status = "cleaning"
        /\ guests[reservations[id].guestId].totalStays >= 1
        /\ ~Succeeded(cancelReservation(DB, reservations[id].tenantId, id))

C6Reservation(o, id) ==
    /\ reservations[id].status = "confirmed"
    /\ o.db.reservations[id].status = "checked_in"
    /\ o.db.reservations[id].actualCheckInDate
    /\ o.db.rooms[reservations[id].roomId].status = "occupied"

C6Guest(o, id) ==
    LET g == reservations[id].guestId
    IN  /\ o.db.guests[g].totalStays = guests[g].totalStays + 1
        /\ o.db.guests[g].totalSpent
               = guests[g].totalSpent + o.db.reservations[id].totalPrice

(* C6 as stated: a successful check-in of a confirmed reservation sets the *)
(* status to checked_in, records the actual check-in timestamp, sets the   *)
(* room's status to occupied, and raises the guest's stay count by 1 and   *)
(* the guest's total spend by the reservation's totalPrice.                *)
C6_CheckInEffects ==
    \A t \in Tenants, id \in ResIds(DB) :
        LET o == checkInGuest(DB, t, id)
        IN  Succeeded(o) => C6Reservation(o, id) /\ C6Guest(o, id)

(* C6, amended: the same, the guest's statistics being raised when the     *)
(* guest's record has not been soft-deleted and left alone when it has.    *)
C6_CheckInEffectsOfLiveGuest ==
    \A t \in Tenants, id \in ResIds(DB) :
        LET o == checkInGuest(DB, t, id)
        IN  Succeeded(o) =>
                /\ C6Reservation(o, id)
                /\ IF guests[reservations[id].guestId].deleted
                   THEN o.db.guests = guests
                   ELSE C6Guest(o, id)

(* A confirmed reservation of a live guest, whose check-in succeeds with a *)
(* price above zero.                                                       *)
C6_Witness ==
    \E id \in ResIds(DB) :
        LET o == checkInGuest(DB, reservations[id].tenantId, id)
        IN  /\ reservations[id].status = "confirmed"
            /\ ~guests[reservations[id].guestId].deleted
            /\ Succeeded(o)
            /\ o.db.reservations[id].totalPrice > 0
            /\ o.db.guests[reservations[id].guestId].totalStays
                   = guests[reservations[id].guestId].totalStays + 1

(* C7: a successful check-out of a checked_in reservation with charges     *)
(* totalling c leaves the status checked_out, the actual check-out         *)
(* timestamp recorded, fees.extra and totalPrice each larger by c than     *)
(* before, remainingBalance = totalPrice - totalPaid, and the room in      *)
(* cleaning.                                                               *)
C7_CheckOutEffects ==
    \A t \in Tenants, id \in ResIds(DB), c \in ChargeInputs :
        LET o == checkOutGuest(DB, t, id, c)
            after == o.db.reservations[id]
        IN  Succeeded(o) =>
                /\ reservations[id].status = "checked_in"
                /\ after.status = "checked_out"
                /\ after.actualCheckOutDate
                /\ after.feesExtra = reservations[id].feesExtra + c
                /\ after.totalPrice = reservations[id].totalPrice + c
                /\ after.remainingBalance = after.totalPrice - after.totalPaid
                /\ o.db.rooms[reservations[id].roomId].status = "cleaning"

(* C8: a successful cancel of a confirmed or checked_in reservation sets   *)
(* it to cancelled and its room to available; a successful cancel of a     *)
(* pending reservation leaves the room's status unchanged.                 *)
C8_CancelFreesRoom ==
    \A t \in Tenants, id \in ResIds(DB) :
        LET o == cancelReservation(DB, t, id)
            r == reservations[id].roomId
        IN  Succeeded(o) =>
                /\ o.db.reservations[id].status = "cancelled"
                /\ reservations[id].status \in {"confirmed", "checked_in"}
                       => o.db.rooms[r].status = "available"
                /\ reservations[id].status = "pending"
                       => o.db.rooms[r].status = rooms[r].status

-----------------------------------------------------------------------------
(* Properties of concurrent create requests                                *)

C2Appended(o, req) ==
    /\ o.code = HTTP_CREATED
    /\ Len(o.db.reservations) = Len(reservations) + 1
    /\ o.db.reservations[Len(o.db.reservations)].roomId = req.body.roomId
    /\ o.db.reservations[Len(o.db.reservations)].checkInDate = req.body.checkInDate
    /\ o.db.reservations[Len(o.db.reservations)].checkOutDate = req.body.checkOutDate
    /\ o.db.reservations[Len(o.db.reservations)].status = "pending"
    /\ o.db.reservations[Len(o.db.reservations)].isActive

(* C2: a create request that has passed the availability check persists    *)
(* its reservation whatever has been written to the room since: nothing    *)
(* between the read and the write locks the room, makes the write          *)
(* conditional or checks again, so two requests for overlapping ranges on  *)
(* one room that both pass the check are both persisted.                   *)
C2_InFlightCreatePersists ==
    \A i \in 1..Len(inflight) :
        guardTenant = inflight[i].tenantId
        => C2Appended(createReservationSave(DB, inflight[i].tenantId,
                                            inflight[i].body, guardTenant),
                      inflight[i])

(* Two overlapping active reservations stand on one room.                  *)
C2_Witness ==
    /\ Len(reservations) = 2
    /\ inflight = << >>
    /\ Blocks(DB, 1, reservations[1].tenantId, reservations[1].roomId)
    /\ Blocks(DB, 2, reservations[1].tenantId, reservations[1].roomId)
    /\ DayRangesOverlap(reservations[1], reservations[2])

-----------------------------------------------------------------------------
(* Properties of the payments                                              *)

RECURSIVE C9NetPaid(_, _, _)
C9NetPaid(db, resId, n) ==
    IF n = 0 THEN 0
    ELSE C9NetPaid(db, resId, n - 1)
         + (IF /\ db.payments[n].reservationId = resId
               /\ db.payments[n].isActive
               /\ db.payments[n].status = "paid"
            THEN db.payments[n].amount - db.payments[n].refundedAmount
            ELSE 0)

C9Reconciled(db, resId) ==
    LET net == C9NetPaid(db, resId, Len(db.payments))
    IN  /\ db.reservations[resId].totalPaid = net
        /\ db.reservations[resId].remainingBalance
               = db.reservations[resId].totalPrice - net

(* C9: after every successful payment creation and every successful        *)
(* refund, partial or full, the reservation's totalPaid is the sum of      *)
(* amount - refundedAmount over its active paid payments, and its          *)
(* remainingBalance is totalPrice minus that sum.                          *)
C9_TotalPaidReconciled ==
    /\ \A t \in Tenants, resId \in ResIds(DB), amount \in AmountInputs :
           LET o == createPayment(DB, t, resId, amount, guardTenant)
           IN  Succeeded(o) => C9Reconciled(o.db, resId)
    /\ \A t \in Tenants, payId \in PayIds(DB), amount \in AmountInputs :
           LET o == processRefund(DB, t, payId, amount, guardTenant)
           IN  Succeeded(o) => C9Reconciled(o.db, payments[payId].reservationId)

C10Rejected(o) ==
    /\ ~Succeeded(o)
    /\ o.db.payments = payments
    /\ o.db.reservations = reservations

C10Persisted(o, resId, amount) ==
    /\ Len(o.db.payments) = Len(payments) + 1
    /\ SubSeq(o.db.payments, 1, Len(payments)) = payments
    /\ o.db.payments[Len(o.db.payments)].reservationId = resId
    /\ o.db.payments[Len(o.db.payments)].amount = amount
    /\ o.db.payments[Len(o.db.payments)].status = "paid"
    /\ o.db.payments[Len(o.db.payments)].isActive

C10Own(t, resId) ==
    reservations[resId].tenantId = t /\ reservations[resId].isActive

(* C10 as stated: a payment whose amount is above the stored               *)
(* remainingBalance is rejected, persists nothing and leaves the           *)
(* reservation's payment summary alone; one with amount <=                 *)
(* remainingBalance on an active reservation of the caller's tenant        *)
(* persists a payment in status paid.                                      *)
C10_AmountAgainstBalance ==
    \A t \in Tenants, resId \in ResIds(DB), amount \in AmountInputs :
        LET o == createPayment(DB, t, resId, amount, guardTenant)
        IN  /\ amount > reservations[resId].remainingBalance => C10Rejected(o)
            /\ (C10Own(t, resId) /\ amount <= reservations[resId].remainingBalance)
                   => C10Persisted(o, resId, amount)

(* C10, amended: the same, the accepted amounts being those from the       *)
(* smallest payable amount, 0.01, up to remainingBalance.                  *)
C10_PayableAmountAgainstBalance ==
    \A t \in Tenants, resId \in ResIds(DB), amount \in AmountInputs :
        LET o == createPayment(DB, t, resId, amount, guardTenant)
        IN  /\ amount > reservations[resId].remainingBalance => C10Rejected(o)
            /\ (/\ C10Own(t, resId)
                /\ amount >= MinAmount
                /\ amount <= reservations[resId].remainingBalance)
                   => C10Persisted(o, resId, amount)

(* A part of the price has been paid: the rest can be paid, more cannot.   *)
C10_Witness ==
    \E resId \in ResIds(DB) :
        LET t == reservations[resId].tenantId
            rest == reservations[resId].remainingBalance
        IN  /\ reservations[resId].isActive
            /\ reservations[resId].totalPaid >= MinAmount
            /\ rest >= MinAmount
            /\ rest + 1 \in AmountInputs
            /\ \E p \in PayIds(DB) : payments[p].status = "paid"
            /\ C10Persisted(createPayment(DB, t, resId, rest, guardTenant), resId, rest)
            /\ C10Rejected(createPayment(DB, t, resId, rest + 1, guardTenant))

(* The refund amounts a request may carry: none or negative, zero, and up  *)
(* to one more than any payment holds.                                     *)
C11Amounts == (0 - 1)..(MaxAmount + 1)

C11Refused(payId, amount) ==
    \/ payments[payId].status # "paid"
    \/ amount > payments[payId].amount - payments[payId].refundedAmount
    \/ amount <= 0

(* C11: a refund request on a payment that is not paid, or for an amount   *)
(* above amount - refundedAmount, or for an amount that is not positive,   *)
(* is rejected, and leaves the payment (its refund record and status) and  *)
(* the reservations' payment summaries as they were.                       *)
C11_RefundRejected ==
    \A t \in Tenants, payId \in PayIds(DB), amount \in C11Amounts,
       asText \in BOOLEAN :
        LET o == processRefundRequest(DB, t, payId, amount, asText, guardTenant)
        IN  C11Refused(payId, amount) =>
                /\ ~Succeeded(o)
                /\ o.db.payments = payments
                /\ o.db.reservations = reservations

(* A paid payment already refunded in part: the rest can be refunded, one  *)
(* unit more cannot; and a payment that is no longer paid refuses any      *)
(* refund.                                                                 *)
C11_Witness ==
    /\ \E payId \in PayIds(DB) :
           LET p == payments[payId]
               rest == p.amount - p.refundedAmount
           IN  /\ p.status = "paid"
               /\ p.refundedAmount > 0
               /\ rest > 0
               /\ Succeeded(processRefund(DB, p.tenantId, payId, rest, guardTenant))
               /\ ~Succeeded(processRefund(DB, p.tenantId, payId, rest + 1, guardTenant))
    /\ \E payId \in PayIds(DB) :
           /\ payments[payId].status # "paid"
           /\ payments[payId].amount > payments[payId].refundedAmount
           /\ ~Succeeded(processRefund(DB, payments[payId].tenantId, payId, 1, guardTenant))

(* C12: in every reachable state the refundedAmount of every payment is    *)
(* between 0 and the payment's amount.                                     *)
C12_RefundedWithinAmount ==
    \A payId \in PayIds(DB) :
        /\ payments[payId].refundedAmount >= 0
        /\ payments[payId].refundedAmount <= payments[payId].amount

-----------------------------------------------------------------------------
(* Properties of the preconditions of a create request                     *)

(* The create requests of the claim: any property, room and guest, any     *)
(* dates, and guest counts as the request schema admits them (at least one *)
(* adult).                                                                 *)
C13Adults == 1..3
C13Children == 0..1

C13Bodies ==
    { CreateBody(p, r, g, ci, co, a, c, st, 0) :
        p \in Properties, r \in Rooms, g \in Guests,
        ci \in DateInputs \cup NoonInputs, co \in DateInputs \cup NoonInputs,
        a \in C13Adults, c \in C13Children, st \in {NoStatus, "checked_in"} }

(* The preconditions, as the claim words them.                             *)
C13Dates(body) ==
    body.checkOutDate > body.checkInDate /\ DayOf(body.checkInDate) >= Today

C13Property(t, body) == propertyTenant(body.propertyId) = t

C13Room(t, body) ==
    /\ ~rooms[body.roomId].deleted
    /\ roomProperty(body.roomId) = body.propertyId
    /\ roomTenant(body.roomId) = t

C13Guest(t, body) ==
    ~guests[body.guestId].deleted /\ guestTenant(body.guestId) = t

C13Capacity(body) ==
    /\ 1 <= body.adults + body.children
    /\ body.adults + body.children
           <= capacityAdults(body.roomId) + capacityChildren(body.roomId)

C13Available(t, body) ==
    \A i \in ResIds(DB) :
        Blocks(DB, i, t, body.roomId) => ~DayRangesOverlap(body, reservations[i])

C13FirstFailing(t, body) ==
    IF ~C13Dates(body) THEN "dates"
    ELSE IF ~C13Property(t, body) THEN "property"
    ELSE IF ~C13Room(t, body) THEN "room"
    ELSE IF ~C13Guest(t, body) THEN "guest"
    ELSE IF ~C13Capacity(body) THEN "capacity"
    ELSE IF ~C13Available(t, body) THEN "availability"
    ELSE "none"

(* The error kind of each step: invalid dates and capacity are bad         *)
(* requests, a missing property, room or guest is not found, an occupied   *)
(* room is a conflict.                                                     *)
C13Error(step) ==
    IF step \in {"dates", "capacity"} THEN HTTP_BAD_REQUEST
    ELSE IF step = "availability" THEN HTTP_CONFLICT
    ELSE HTTP_NOT_FOUND

-----------------------------------------------------------------------------
(* Properties of an update of the dates                                    *)

C14Dates == DateInputs \cup NoonInputs \cup {Absent}

C14Range(id, body) ==
    [checkInDate |-> IF body.checkInDate # Absent
                     THEN body.checkInDate ELSE reservations[id].checkInDate,
     checkOutDate |-> IF body.checkOutDate # Absent
                      THEN body.checkOutDate ELSE reservations[id].checkOutDate]

(* The other blocking reservations of the room that the new range          *)
(* overlaps.                                                               *)
C14Others(t, id, body) ==
    { j \in ResIds(DB) \ {id} :
        /\ Blocks(DB, j, t, reservations[id].roomId)
        /\ DayRangesOverlap(C14Range(id, body), reservations[j]) }

(* A new range of at least one day that does not start before today.       *)
C14NewRange(id, body) ==
    /\ DayOf(C14Range(id, body).checkInDate) < DayOf(C14Range(id, body).checkOutDate)
    /\ DayOf(C14Range(id, body).checkInDate) >= Today

C14Accepted(o, id, body) ==
    /\ o.code = HTTP_OK
    /\ o.db.reservations[id].checkInDate = C14Range(id, body).checkInDate
    /\ o.db.reservations[id].checkOutDate = C14Range(id, body).checkOutDate
    /\ \A j \in ResIds(DB) \ {id} : o.db.reservations[j] = reservations[j]

(* C14: an update of a reservation's dates checks the new range against    *)
(* the other active pending, confirmed or checked_in reservations of the   *)
(* room and not against the reservation itself: a new range that overlaps  *)
(* none of the others is accepted, its own previous range notwithstanding, *)
(* and one that overlaps another is rejected with a room conflict and      *)
(* leaves the reservation's dates, pricing and status as they were.        *)
C14_UpdateExcludesItself ==
    \A t \in Tenants, id \in ResIds(DB), ci \in C14Dates, co \in C14Dates :
        LET body == DatesBody(ci, co)
            o == updateReservation(DB, t, id, body)
        IN  (reservations[id].tenantId = t /\ C14NewRange(id, body))
            => IF C14Others(t, id, body) = {}
               THEN C14Accepted(o, id, body)
               ELSE o.code = HTTP_CONFLICT /\ o.db = DB

(* Two blocking reservations share a room; the first is moved to a range   *)
(* that overlaps its own previous one and no other, and is refused a range *)
(* that overlaps the second.                                               *)
C14_Witness ==
    /\ Len(reservations) = 2
    /\ Blocks(DB, 1, reservations[1].tenantId, reservations[1].roomId)
    /\ Blocks(DB, 2, reservations[1].tenantId, reservations[1].roomId)
    /\ \E ci \in C14Dates, co \in C14Dates :
           LET body == DatesBody(ci, co)
           IN  /\ C14NewRange(1, body)
               /\ C14Range(1, body) # C14Range(1, DatesBody(Absent, Absent))
               /\ DayRangesOverlap(C14Range(1, body), reservations[1])
               /\ C14Others(reservations[1].tenantId, 1, body) = {}
               /\ C14Accepted(updateReservation(DB, reservations[1].tenantId, 1, body),
                              1, body)
    /\ \E ci \in C14Dates, co \in C14Dates :
           LET body == DatesBody(ci, co)
           IN  /\ C14NewRange(1, body)
               /\ C14Others(reservations[1].tenantId, 1, body) = {2}
               /\ updateReservation(DB, reservations[1].tenantId, 1, body).code
                      = HTTP_CONFLICT

-----------------------------------------------------------------------------
(* Properties of the room price                                            *)

C15Extra(party, capacity) == IF party > capacity THEN party - capacity ELSE 0

C15Price(room, nights, adults, children) ==
    room.basePrice * nights
    + C15Extra(adults, room.capacityAdults) * room.extraAdultPrice * nights
    + C15Extra(children, room.capacityChildren) * room.extraChildPrice * nights

(* C15: for every rate schedule, every nights >= 1 and every number of     *)
(* adults and children, the room price is basePrice*nights                 *)
(* + max(0, adults - capacity.adults)*extraAdultPrice*nights               *)
(* + max(0, children - capacity.children)*extraChildPrice*nights.          *)
C15_RoomPrice ==
    (quote.called /\ quote.returned)
    => quote.totalPrice
           = C15Price(quote.room, quote.nights, quote.adults, quote.children)

(* The example: base 100, three nights, capacity 2/0, three adults, 20 for *)
(* the extra adult, priced at 360.                                         *)
C15_Witness ==
    /\ quote.called /\ quote.returned
    /\ quote.room = ExampleCall.room
    /\ quote.nights = 3 /\ quote.adults = 3 /\ quote.children = 0
    /\ quote.adults > quote.room.capacityAdults
    /\ quote.totalPrice = 360

-----------------------------------------------------------------------------
(* Properties of a soft-deleted reservation                                *)

C16NotFound(o) == o.code = HTTP_NOT_FOUND /\ o.db = DB

(* C16: confirm, check-in, check-out, cancel and update requests on a      *)
(* reservation whose active flag is false are answered not found and       *)
(* change neither the reservation, nor the room's status, nor the guest's  *)
(* statistics.                                                             *)
C16_SoftDeletedNotFound ==
    \A t \in Tenants, id \in ResIds(DB) :
        ~reservations[id].isActive =>
            /\ C16NotFound(confirmReservation(DB, t, id))
            /\ C16NotFound(checkInGuest(DB, t, id))
            /\ \A c \in ChargeInputs : C16NotFound(checkOutGuest(DB, t, id, c))
            /\ C16NotFound(cancelReservation(DB, t, id))
            /\ \A body \in StayUpdateBodies :
                   C16NotFound(updateReservation(DB, t, id, body))

-----------------------------------------------------------------------------
(* Properties of tenant isolation                                          *)

(* C17: every lookup made while a request of tenant t is served is scoped  *)
(* to t, the lookups that name no tenant included, so that the outcome of  *)
(* t's payment operation, with the payment summary it recomputes, is the   *)
(* one it has when no request of another tenant has run before it.         *)
C17_LookupsScopedToCaller ==
    /\ \A t \in Tenants, resId \in ResIds(DB), amount \in AmountInputs :
           createPayment(DB, t, resId, amount, guardTenant)
               = createPayment(DB, t, resId, amount, t)
    /\ \A t \in Tenants, payId \in PayIds(DB), amount \in AmountInputs :
           processRefund(DB, t, payId, amount, guardTenant)
               = processRefund(DB, t, payId, amount, t)
    /\ \A t \in Tenants, payId \in PayIds(DB), st \in PAYMENT_STATUS :
           updatePayment(DB, t, payId, st, guardTenant)
               = updatePayment(DB, t, payId, st, t)

-----------------------------------------------------------------------------
(* Properties of the availability listings                                 *)

C18Free(t, r, ci, co) == checkRoomAvailability(DB, r, ci, co, t, 0) = {}

(* C18: for every date range, every room that findAvailableInProperty,     *)
(* the check-availability endpoint or getAvailableRooms returns is one     *)
(* checkRoomAvailability reports available.                                *)
C18_ListedRoomsAreFree ==
    \A t \in Tenants, p \in Properties, ci \in DateInputs, co \in DateInputs :
        co > ci =>
            /\ \A r \in findAvailableInProperty(DB, t, p, ci, co) :
                   C18Free(t, r, ci, co)
            /\ \A r \in getAvailableRooms(DB, p, ci, co, t) :
                   C18Free(t, r, ci, co)
            /\ \A castThrows \in BOOLEAN :
                   \A r \in checkAvailability(DB, t, p, ci, co, castThrows).rooms :
                       C18Free(t, r, ci, co)

-----------------------------------------------------------------------------
(* Properties of checkRoomAvailability                                     *)

C19Times == DateInputs \cup NoonInputs
C19Day(d) == d \div TicksPerDay

(* Some other active blocking reservation of the tenant's room holds a     *)
(* day of the range, the check-out day not counted.                        *)
C19Overlapped(db, t, r, ci, co, exclude) ==
    \E i \in ResIds(db) :
        /\ i # exclude
        /\ db.reservations[i].isActive
        /\ db.reservations[i].tenantId = t
        /\ db.reservations[i].roomId = r
        /\ db.reservations[i].status \in {"pending", "confirmed", "checked_in"}
        /\ C19Day(ci) < C19Day(db.reservations[i].checkOutDate)
        /\ C19Day(co) > C19Day(db.reservations[i].checkInDate)

C19SameAnswers ==
    \A t \in Tenants, r \in Rooms, ci \in C19Times, co \in C19Times,
       exclude \in 0..MaxDeskRes :
        checkRoomAvailability(DB', r, ci, co, t, exclude)
            = checkRoomAvailability(DB, r, ci, co, t, exclude)

(* C19: checkRoomAvailability reports a conflict exactly when an active    *)
(* pending, confirmed or checked_in reservation of the same tenant and     *)
(* room, other than the excluded one, overlaps the half-open range of      *)
(* days; a create it refuses writes nothing; and as long as no             *)
(* reservation is written it gives the same answer to the same call.       *)
C19_ConflictIffHalfOpenOverlap ==
    /\ [](\A t \in Tenants, r \in Rooms, ci \in C19Times, co \in C19Times,
             exclude \in 0..MaxDeskRes :
              (checkRoomAvailability(DB, r, ci, co, t, exclude) # {})
                  <=> C19Overlapped(DB, t, r, ci, co, exclude))
    /\ [](\A t \in Tenants, body \in DeskBodies :
              createReservationFailedStep(DB, t, body) = "availability"
                  => createReservation(DB, t, body).db = DB)
    /\ [][reservations' = reservations => C19SameAnswers]_vars

(* A stay that ends at noon: the room is taken on its nights, free from    *)
(* the morning of its check-out day, and free for the stay itself.         *)
C19_Witness ==
    \E i \in ResIds(DB) :
        LET res == reservations[i]
        IN  /\ res.isActive /\ res.status \in BlockingStatus
            /\ res.checkOutDate \in NoonInputs
            /\ normalizeDate(res.checkOutDate) > res.checkInDate
            /\ checkRoomAvailability(DB, res.roomId, res.checkInDate,
                                     res.checkOutDate, res.tenantId, 0) = {i}
            /\ checkRoomAvailability(DB, res.roomId, res.checkInDate,
                                     res.checkOutDate, res.tenantId, i) = {}
            /\ checkRoomAvailability(DB, res.roomId,
                                     normalizeDate(res.checkOutDate),
                                     normalizeDate(res.checkOutDate) + TicksPerDay,
                                     res.tenantId, 0) = {}
            /\ createReservationFailedStep(DB, res.tenantId,
                   CreateBody(res.propertyId, res.roomId, guestOf(res.tenantId),
                              res.checkInDate, res.checkOutDate, 1, 0, NoStatus, 0))
                   = "availability"

-----------------------------------------------------------------------------
(* Properties of the payment summary                                       *)

C20Derived(doc) ==
    /\ doc.remainingBalance = doc.totalPrice - doc.totalPaid
    /\ doc.paymentStatus =
           IF doc.totalPaid <= 0 THEN "pending"
           ELSE IF doc.remainingBalance <= 0 THEN "paid"
           ELSE "partial"

(* C20: on every stored reservation remainingBalance is totalPrice minus   *)
(* totalPaid, and paymentStatus is pending when totalPaid <= 0, paid when  *)
(* totalPaid > 0 and remainingBalance <= 0, and partial otherwise.         *)
C20_PaymentSummaryDerived ==
    \A i \in ResIds(DB) : C20Derived(reservations[i])

-----------------------------------------------------------------------------
(* Properties of the stored pricing                                        *)

C21Priced(doc) ==
    /\ doc.taxes = 0
    /\ doc.totalPrice = doc.subtotal + doc.feesCleaning + doc.feesService + doc.feesExtra

(* Pricing objects a client may send with a create: consistent, with       *)
(* taxes, with fees, and with a total that is not the sum of its parts.    *)
C21Pricings ==
    { [roomRate |-> 1, nights |-> 1, subtotal |-> 1, taxes |-> 0,
       feesCleaning |-> 0, feesService |-> 0, feesExtra |-> 0, totalPrice |-> 1],
      [roomRate |-> 1, nights |-> 1, subtotal |-> 1, taxes |-> 1,
       feesCleaning |-> 0, feesService |-> 0, feesExtra |-> 0, totalPrice |-> 2],
      [roomRate |-> 2, nights |-> 2, subtotal |-> 4, taxes |-> 0,
       feesCleaning |-> 1, feesService |-> 1, feesExtra |-> 1, totalPrice |-> 7],
      [roomRate |-> 3, nights |-> 1, subtotal |-> 0, taxes |-> 2,
       feesCleaning |-> 1, feesService |-> 0, feesExtra |-> 0, totalPrice |-> 0] }

C21Bodies ==
    { [propertyId |-> roomProperty(r), roomId |-> r, guestId |-> guestOf(roomTenant(r)),
       checkInDate |-> TodayMidnight, checkOutDate |-> co,
       adults |-> 1, children |-> 0, status |-> st,
       roomRate |-> pr.roomRate, nights |-> pr.nights, subtotal |-> pr.subtotal,
       taxes |-> pr.taxes, feesCleaning |-> pr.feesCleaning,
       feesService |-> pr.feesService, feesExtra |-> pr.feesExtra,
       totalPrice |-> pr.totalPrice] :
        r \in Rooms, co \in {2 * TodayMidnight, 3 * TodayMidnight},
        st \in {NoStatus, "checked_in"}, pr \in C21Pricings }

C21Updates ==
    { DatesBody(Absent, co) : co \in DateInputs \cup NoonInputs }
    \cup { UpdateBody(FALSE, Absent, Absent, TRUE, a, c, NoStatus) :
              a \in 1..2, c \in 0..1 }
    \cup { StatusBody("confirmed") }

C21AllPriced(db) == \A i \in ResIds(db) : C21Priced(db.reservations[i])

(* C21: every stored reservation has taxes 0 and a total price equal to    *)
(* its subtotal plus its cleaning, service and extra fees: after every     *)
(* request served, after a create whatever pricing object it sends, and    *)
(* after an update of the dates, the guest counts or the status.           *)
C21_TotalIsSubtotalPlusFees ==
    /\ C21AllPriced(DB)
    /\ \A t \in Tenants, body \in C21Bodies :
           C21AllPriced(createReservation(DB, t, body).db)
    /\ \A t \in Tenants, id \in ResIds(DB), body \in C21Updates :
           C21AllPriced(updateReservation(DB, t, id, body).db)

-----------------------------------------------------------------------------
(* Properties of the state transitions                                     *)

(* C22: a confirm of a pending reservation that answers 200 leaves the     *)
(* reservation confirmed with its confirmation timestamp set.              *)
C22_ConfirmRecordsTimestamp ==
    \A t \in Tenants, id \in ResIds(DB) :
        LET o == confirmReservation(DB, t, id)
        IN  (reservations[id].status = "pending" /\ o.code = HTTP_OK)
                => /\ o.db.reservations[id].status = "confirmed"
                   /\ o.db.reservations[id].confirmedAt

C23Bodies ==
    { CreateBody(roomProperty(r), r, guestOf(roomTenant(r)), ci, co, 1, 0, st, 0) :
        r \in Rooms, ci \in {d \in DateInputs : d >= TodayMidnight},
        co \in DateInputs \cup NoonInputs,
        st \in RESERVATION_STATUS \cup {NoStatus} }

C23Created(o) == o.db.reservations[Len(o.db.reservations)]

-----------------------------------------------------------------------------
(* Properties of the side effects of a transition                          *)

(* C24: when the room update or the guest update of a check-in or          *)
(* check-out throws after the new status is stored, the reservation keeps  *)
(* the new status, the request answers 200, and a check-in whose room      *)
(* update threw still counts the stay of the guest.                        *)
C24_SideEffectFailureNonFatal ==
    \A t \in Tenants, id \in ResIds(DB), roomFails \in BOOLEAN, guestFails \in BOOLEAN :
        LET i == checkInGuestRequest(DB, t, id, roomFails, guestFails)
            clean == checkInGuest(DB, t, id)
            o == checkOutGuestRequest(DB, t, id, 0, roomFails)
        IN  /\ (clean.code = HTTP_OK /\ (roomFails \/ guestFails))
                   => /\ i.db.reservations[id].status = "checked_in"
                      /\ i.code = HTTP_OK
                      /\ ~guestFails => i.db.guests = clean.db.guests
            /\ (checkOutGuest(DB, t, id, 0).code = HTTP_OK /\ roomFails)
                   => /\ o.db.reservations[id].status = "checked_out"
                      /\ o.code = HTTP_OK

(* C25: a room with an active checked_in reservation is occupied.          *)
C25_CheckedInRoomOccupied ==
    \A i \in ResIds(DB) :
        (reservations[i].isActive /\ reservations[i].status = "checked_in")
            => rooms[reservations[i].roomId].status = "occupied"

-----------------------------------------------------------------------------
(* Properties of the guest statistics                                      *)

(* The reservations of guest g that have entered checked_in, among the     *)
(* first n.                                                                *)
C26Stays(db, g, n) ==
    { i \in 1..n : db.reservations[i].guestId = g /\ db.reservations[i].checkedInAt }

RECURSIVE C26Spent(_, _, _)
C26Spent(db, g, n) ==
    IF n = 0 THEN 0
    ELSE C26Spent(db, g, n - 1)
         + (IF n \in C26Stays(db, g, n) THEN db.reservations[n].totalPrice ELSE 0)

(* C26: a guest's totalStays is the number of the guest's reservations     *)
(* that have entered checked_in, and totalSpent the sum of their total     *)
(* prices.                                                                 *)
C26_StaysCountedOnce ==
    \A g \in Guests :
        /\ guests[g].totalStays
               = Cardinality(C26Stays(DB, g, Len(reservations)))
        /\ guests[g].totalSpent = C26Spent(DB, g, Len(reservations))

-----------------------------------------------------------------------------
(* Properties of the payment ledger                                        *)

(* C27: the active paid payments of a reservation, net of refunds, never   *)
(* add up to more than its total price; its remaining balance is never     *)
(* negative; and reconciling a stored paid payment never fails.            *)
C27_PaidWithinTotalPrice ==
    /\ \A resId \in ResIds(DB) :
           /\ C9NetPaid(DB, resId, Len(payments)) <= reservations[resId].totalPrice
           /\ reservations[resId].remainingBalance >= 0
    /\ \A payId \in PayIds(DB) :
           payments[payId].status = "paid"
               => updateReservationPaymentStatus(DB, payId, guardTenant).ok

-----------------------------------------------------------------------------
(* Properties of the pricing snapshot                                      *)

C28Snapshot(doc) ==
    <<doc.roomRate, doc.nights, doc.subtotal, doc.totalPrice>>

C28Kept(o, id) ==
    o.code = HTTP_OK
        => C28Snapshot(o.db.reservations[id]) = C28Snapshot(reservations[id])

(* C28: a confirm, a check-in, a cancel and a check-out without            *)
(* additional charges that answer 200 leave roomRate, nights, subtotal     *)
(* and totalPrice of the reservation as they were stored.                  *)
C28_TransitionsKeepPricing ==
    \A t \in Tenants, id \in ResIds(DB) :
        /\ C28Kept(confirmReservation(DB, t, id), id)
        /\ C28Kept(checkInGuest(DB, t, id), id)
        /\ C28Kept(cancelReservation(DB, t, id), id)
        /\ C28Kept(checkOutGuest(DB, t, id, 0), id)

C29TotalPaidIsNet(db, resId) ==
    db.reservations[resId].totalPaid = C9NetPaid(db, resId, Len(db.payments))

(* A payment of the caller whose reservation is stored with the sum of     *)
(* its payments, asked for while the tenant filter is the caller's.        *)
C29Case(t, payId) ==
    /\ FindPayment(DB, t, payId)
    /\ payments[payId].reservationId \in ResIds(DB)
    /\ C29TotalPaidIsNet(DB, payments[payId].reservationId)
    /\ guardTenant = t

(* C29: after a payment update that changes the payment's status and       *)
(* answers 200, and after a payment soft-delete that answers 200, the      *)
(* reservation's totalPaid is still the sum of amount - refundedAmount     *)
(* over its active paid payments.                                          *)
C29_TotalPaidFollowsStatus ==
    \A t \in Tenants, payId \in PayIds(DB) :
        C29Case(t, payId) =>
            LET resId == payments[payId].reservationId
                d == deletePayment(DB, t, payId, guardTenant)
            IN  /\ \A st \in PAYMENT_STATUS \ {payments[payId].status} :
                       LET o == updatePayment(DB, t, payId, st, guardTenant)
                       IN  o.code = HTTP_OK => C29TotalPaidIsNet(o.db, resId)
                /\ d.code = HTTP_OK => C29TotalPaidIsNet(d.db, resId)

-----------------------------------------------------------------------------
(* Properties of the guest counts                                          *)

(* C30: an update that supplies guest counts and answers 200 stores the    *)
(* supplied adults and the supplied children, 0 included; and the update   *)
(* is refused with 400 exactly when the supplied counts (the stored one    *)
(* for a count left out) do not fit the room.                              *)
C30_SuppliedGuestCountsStored ==
    \A t \in Tenants, id \in ResIds(DB), body \in PartyUpdateBodies :
        LET o == updateReservation(DB, t, id, body)
            adults == IF body.adults # Absent THEN body.adults
                      ELSE reservations[id].adults
            children == IF body.children # Absent THEN body.children
                        ELSE reservations[id].children
        IN  /\ o.code = HTTP_OK
                   => /\ o.db.reservations[id].adults = adults
                      /\ o.db.reservations[id].children = children
            /\ FindReservation(DB, t, id)
                   => (o.code = HTTP_BAD_REQUEST
                          <=> ~validateGuestCapacity(adults, children,
                                                     reservations[id].roomId))

====
